---- MODULE Spec2Model ----
(***************************************************************************)
(* Model of aiidalab_widgets_base/wizard.py: WizardAppWidgetStep and       *)
(* WizardAppWidget (the wizard controller over an accordion of steps).     *)
(*                                                                         *)
(* Python values are modelled as follows.                                  *)
(*  - A step is a record [state, auto_advance, reset, state_trait];        *)
(*    `reset` says whether the step object has a `reset` attribute         *)
(*    (hasattr), `state_trait` what its `state` is: the UseEnum trait of   *)
(*    WizardAppWidgetStep, a trait of another widget class that takes any  *)
(*    string ("Unicode"), a plain attribute that is no trait               *)
(*    ("attribute"), or nothing at all ("missing").                        *)
(*  - selected_index is None or an int: None is <<>>, the int i is <<i>>.  *)
(*    accordion.selected_index and self.selected_index are linked          *)
(*    (ipw.link, line 78) and always hold the same value, so one variable  *)
(*    stands for both.  The accordion's trait is plain storage here: the   *)
(*    only range discipline is the one wizard.py itself implements.        *)
(*  - An exception is a non-empty string in the field `err`; every         *)
(*    operator that runs after a raise passes the record on unchanged.     *)
(*  - Handlers are operators on a record `c` (the controller plus its      *)
(*    steps); an action applies one whole handler and commits the result.  *)
(***************************************************************************)
EXTENDS Integers, Sequences, FiniteSets, TLC

VARIABLES
    phase,           \* "new": steps exist, no controller yet; "built"; "failed";
                     \* "none" where there is no wizard
    steps,           \* the step widgets, in order (Python index i is steps[i+1])
    selected_index,  \* WizardAppWidget.selected_index / accordion.selected_index
    back_disabled,   \* back_button.disabled
    next_disabled,   \* next_button.disabled
    reset_disabled,  \* reset_button.disabled
    titles,          \* accordion titles, one per step, as set by set_title
    observers,       \* indices of the steps on which _update_step_state is registered
    spinner_alive,   \* the spinner thread has been started
    last,            \* history: the last operation and what it did
    threads,         \* the threads that are inside _update_step_state, each with
                     \* its position and its local variables; <<>> where the
                     \* handlers run one after the other
    submit_button,   \* a SubmitButtonWidget (process.py), <<>> where there is none
    follower,        \* a ProcessFollowerWidget (process.py), <<>> where there is none
    rpn              \* a run of ReversePolishNotation.convert (misc.py), <<>>
                     \* where there is none

\* The objects of process.py and misc.py, which know nothing of the wizard.
others == <<submit_button, follower, rpn>>

vars == <<phase, steps, selected_index, back_disabled, next_disabled,
          reset_disabled, titles, observers, spinner_alive, last, threads,
          submit_button, follower, rpn>>

\* No such object exists.
Absent == <<>>

\* The wizard alone.
NoOthers == submit_button = Absent /\ follower = Absent /\ rpn = Absent

\* Largest number of steps handed to the constructor.
MaxSteps == 3

\* Largest number of steps, among those handed to the constructor, that have
\* no reset method.
MaxNoReset == 1

\* WizardAppWidgetStep.State
INIT == "INIT"
CONFIGURED == "CONFIGURED"
READY == "READY"
ACTIVE == "ACTIVE"
SUCCESS == "SUCCESS"
FAIL == "FAIL"

State == {INIT, CONFIGURED, READY, ACTIVE, SUCCESS, FAIL}

\* Values of a step's state that are no member of State: raw strings, which
\* only a state trait other than UseEnum(State) accepts.
RawStates == {"paused"}

\* Largest number of steps, among those handed to the constructor, whose
\* state is no trait.
MaxNoTrait == 1

\* str.upper on the strings that occur as states.
upper(s) ==
    CASE s = "paused" -> "PAUSED"
      [] OTHER -> s

\* The wall clock stays within the first MaxFrames animation frames (of the
\* four glyphs of the ACTIVE icon).
MaxFrames == 2

Frames == 0 .. (MaxFrames - 1)

\* The frames time() can select while the steps st are rendered: the frame
\* enters a title only through the icon of an ACTIVE step.
ClockFrames(st) ==
    IF \E i \in 1 .. Len(st) : st[i].state = "ACTIVE" THEN Frames ELSE {0}

None == <<>>

Idx(i) == <<i>>

\* WizardAppWidget.ICONS, with the animated entry indexed by the frame, as
\* _update_titles reads it: icons().get(state, str(state).upper()).
ICONS(s, frame) ==
    CASE s = INIT -> "U+25CB"
      [] s = READY -> "U+25CE"
      [] s = CONFIGURED -> "U+25CF"
      [] s = ACTIVE -> <<"U+25DC", "U+25DD", "U+25DE", "U+25DF">>[(frame % 4) + 1]
      [] s = SUCCESS -> "U+2713"
      [] s = FAIL -> "U+00D7"
      [] OTHER -> upper(s)

\* len(self.accordion.children)
NumChildren(c) == Len(c.steps)

\* Whether children[index] exists (Python accepts -len .. len-1).
HasChild(c, index) == index >= -NumChildren(c) /\ index < NumChildren(c)

\* self.accordion.children[index], negative indices counting from the end.
children(c, index) ==
    IF index >= 0 THEN c.steps[index + 1] ELSE c.steps[NumChildren(c) + index + 1]

\* WizardAppWidgetStep.can_reset
step_can_reset(step) == step.reset

\* The steps, as 1-based positions, that have no `state` attribute at all.
StateMissing(c) == {i \in 1 .. NumChildren(c) : c.steps[i].state_trait = "missing"}

\* The steps, as 0-based indices, for which has_trait("state") is false.
NoStateTrait(c) ==
    {j \in 0 .. (NumChildren(c) - 1) :
        c.steps[j + 1].state_trait \notin {"UseEnum", "Unicode"}}

\* The least element of a non-empty set of integers.
Least(S) == CHOOSE x \in S : \A y \in S : x <= y

\* WizardAppWidget._update_titles: one title per step, "{icon} Step {i+1}: ...".
\* Reading widget.state of a step without that attribute raises, after the
\* titles of the steps before it are set.
update_titles(c, frame) ==
    IF c.err # "" THEN c
    ELSE LET stop == IF StateMissing(c) = {} THEN NumChildren(c)
                     ELSE Least(StateMissing(c)) - 1
             len == IF Len(c.titles) > stop THEN Len(c.titles) ELSE stop
         IN  [c EXCEPT
                !.titles = [i \in 1 .. len |->
                              IF i <= stop
                              THEN <<ICONS(c.steps[i].state, frame), i>>
                              ELSE c.titles[i]],
                !.err = IF StateMissing(c) = {} THEN "" ELSE "AttributeError"]

\* can_reset without the test that every step has a reset method.
can_reset_without_capability_test(c) ==
    IF \E i \in 1 .. NumChildren(c) : c.steps[i].state # INIT THEN "True"
    ELSE "None"

\* can_reset answering for the first non-INIT step alone.
can_reset_any_resettable(c) ==
    IF \A i \in 1 .. NumChildren(c) : ~step_can_reset(c.steps[i]) THEN "False"
    ELSE IF \E i \in 1 .. NumChildren(c) : c.steps[i].state # INIT THEN "True"
    ELSE "None"

\* WizardAppWidget.can_reset: "False", "True", or "None" when the function
\* falls off its end.
can_reset(c) ==
    IF \E i \in 1 .. NumChildren(c) : ~step_can_reset(c.steps[i]) THEN "False"
    ELSE IF \E i \in 1 .. NumChildren(c) : c.steps[i].state # INIT THEN "True"
    ELSE "None"

\* Python's `not x` for the values can_reset returns.
PyNot(v) == v # "True"

\* _update_buttons with FAIL missing from the states that disable Back.
update_buttons_back_after_fail(c) ==
    IF c.err # "" THEN c
    ELSE IF c.idx = None
    THEN [c EXCEPT !.back = TRUE, !.next = TRUE, !.reset = TRUE]
    ELSE LET index == c.idx[1]
             first_step_selected == index = 0
             last_step_selected == index + 1 = NumChildren(c)
         IN  IF ~HasChild(c, index) THEN [c EXCEPT !.err = "IndexError"]
             ELSE LET selected_widget == children(c, index)
                  IN  [c EXCEPT
                         !.back = first_step_selected
                                  \/ selected_widget.state \in {ACTIVE, SUCCESS},
                         !.next = last_step_selected
                                  \/ selected_widget.state # SUCCESS,
                         !.reset = PyNot(can_reset(c))]

\* _update_buttons without the last-step test on the Next button.
update_buttons_next_on_last(c) ==
    IF c.err # "" THEN c
    ELSE IF c.idx = None
    THEN [c EXCEPT !.back = TRUE, !.next = TRUE, !.reset = TRUE]
    ELSE LET index == c.idx[1]
             first_step_selected == index = 0
         IN  IF ~HasChild(c, index) THEN [c EXCEPT !.err = "IndexError"]
             ELSE LET selected_widget == children(c, index)
                  IN  [c EXCEPT
                         !.back = first_step_selected
                                  \/ selected_widget.state \in {ACTIVE, SUCCESS, FAIL},
                         !.next = selected_widget.state # SUCCESS,
                         !.reset = PyNot(can_reset(c))]

\* _update_buttons that, with no step selected, disables Back and Next only.
update_buttons_unset_keeps_reset(c) ==
    IF c.err # "" THEN c
    ELSE IF c.idx = None
    THEN [c EXCEPT !.back = TRUE, !.next = TRUE]
    ELSE LET index == c.idx[1]
             first_step_selected == index = 0
             last_step_selected == index + 1 = NumChildren(c)
         IN  IF ~HasChild(c, index) THEN [c EXCEPT !.err = "IndexError"]
             ELSE LET selected_widget == children(c, index)
                  IN  [c EXCEPT
                         !.back = first_step_selected
                                  \/ selected_widget.state \in {ACTIVE, SUCCESS, FAIL},
                         !.next = last_step_selected
                                  \/ selected_widget.state # SUCCESS,
                         !.reset = PyNot(can_reset(c))]

\* WizardAppWidget._update_buttons
update_buttons(c) ==
    IF c.err # "" THEN c
    ELSE IF c.idx = None
    THEN [c EXCEPT !.back = TRUE, !.next = TRUE, !.reset = TRUE]
    ELSE LET index == c.idx[1]
             first_step_selected == index = 0
             last_step_selected == index + 1 = NumChildren(c)
         IN  IF ~HasChild(c, index) THEN [c EXCEPT !.err = "IndexError"]
             ELSE LET selected_widget == children(c, index)
                  IN  [c EXCEPT
                         !.back = first_step_selected
                                  \/ selected_widget.state \in {ACTIVE, SUCCESS, FAIL},
                         !.next = last_step_selected
                                  \/ selected_widget.state # SUCCESS,
                         !.reset = PyNot(can_reset(c))]

\* WizardAppWidget._observe_selected_index
observe_selected_index(c) == update_buttons(c)

\* An assignment accordion.selected_index = v made outside any
\* hold_trait_notifications: the link copies it to self.selected_index and,
\* when the value changed, the observer runs at once.
set_selected_index(c, v) ==
    IF c.err # "" THEN c
    ELSE IF v = c.idx THEN c
    ELSE observe_selected_index([c EXCEPT !.idx = v])

\* _consider_auto_advance without the test of the auto_advance flag.
consider_auto_advance_ignoring_flag(c) ==
    IF c.err # "" THEN c
    ELSE IF c.idx = None THEN [c EXCEPT !.err = "TypeError"]
    ELSE LET index == c.idx[1]
             last_step_selected == index + 1 = NumChildren(c)
         IN  IF ~HasChild(c, index) THEN [c EXCEPT !.err = "IndexError"]
             ELSE LET selected_widget == children(c, index)
                  IN  IF ~last_step_selected /\ selected_widget.state = SUCCESS
                      THEN [c EXCEPT !.idx = Idx(index + 1), !.adv = TRUE]
                      ELSE c

\* _consider_auto_advance without the test for the last step.
consider_auto_advance_past_last(c) ==
    IF c.err # "" THEN c
    ELSE IF c.idx = None THEN [c EXCEPT !.err = "TypeError"]
    ELSE LET index == c.idx[1]
         IN  IF ~HasChild(c, index) THEN [c EXCEPT !.err = "IndexError"]
             ELSE LET selected_widget == children(c, index)
                  IN  IF selected_widget.auto_advance
                         /\ selected_widget.state = SUCCESS
                      THEN [c EXCEPT !.idx = Idx(index + 1), !.adv = TRUE]
                      ELSE c

\* WizardAppWidget._consider_auto_advance
consider_auto_advance(c) ==
    IF c.err # "" THEN c
    ELSE IF c.idx = None THEN [c EXCEPT !.err = "TypeError"]
    ELSE LET index == c.idx[1]
             last_step_selected == index + 1 = NumChildren(c)
         IN  IF ~HasChild(c, index) THEN [c EXCEPT !.err = "IndexError"]
             ELSE LET selected_widget == children(c, index)
                  IN  IF selected_widget.auto_advance
                         /\ ~last_step_selected
                         /\ selected_widget.state = SUCCESS
                      THEN [c EXCEPT !.idx = Idx(index + 1), !.adv = TRUE]
                      ELSE c

\* WizardAppWidget._update_step_state.  The change of selected_index made by
\* _consider_auto_advance is notified when hold_trait_notifications is left,
\* which runs _observe_selected_index once.
update_step_state(c, frame) ==
    LET c1 == update_titles(c, frame)
        c2 == update_buttons(c1)
        c3 == consider_auto_advance(c2)
    IN  IF c3.idx # c.idx THEN observe_selected_index(c3) ELSE c3

\* An assignment step.state = s to step j: traitlets notifies the registered
\* observer only when the value changed.
set_state(c, j, s, frame) ==
    IF c.err # "" THEN c
    ELSE IF c.steps[j + 1].state = s THEN c
    ELSE LET c1 == [c EXCEPT !.steps[j + 1].state = s]
         IN  IF j \in c.obs THEN update_step_state(c1, frame) ELSE c1

\* A step's own reset(): it takes the step back to INIT.
step_reset(c, j, frame) == set_state(c, j, INIT, frame)

\* The loop of WizardAppWidget.reset over reversed(range(step, len(children))),
\* at position `index`.
RECURSIVE reset_loop(_, _, _, _)
reset_loop(c, index, step, frame) ==
    IF index < step \/ c.err # "" THEN c
    ELSE reset_loop(
            IF children(c, index).reset
            THEN step_reset([c EXCEPT !.log = Append(@, index)], index, frame)
            ELSE c,
            index - 1, step, frame)

\* reset looping over range(step, len(children)) without reversed().
RECURSIVE reset_loop_forward(_, _, _)
reset_loop_forward(c, index, frame) ==
    IF index >= NumChildren(c) \/ c.err # "" THEN c
    ELSE reset_loop_forward(
            IF children(c, index).reset
            THEN step_reset([c EXCEPT !.log = Append(@, index)], index, frame)
            ELSE c,
            index + 1, frame)

reset_forward(c, step, frame) == reset_loop_forward(c, step, frame)

\* reset that also ends the spinner thread.
reset_stopping_spinner(c, step, frame) ==
    [reset_loop(c, NumChildren(c) - 1, step, frame) EXCEPT !.spin = FALSE]

\* reset that ignores its argument and resets the whole app.
reset_whole_app(c, step, frame) == reset_loop(c, NumChildren(c) - 1, 0, frame)

\* reset that afterwards selects the step it was given.
reset_selecting_step(c, step, frame) ==
    set_selected_index(reset_loop(c, NumChildren(c) - 1, step, frame), Idx(step))

\* WizardAppWidget.reset
reset(c, step, frame) == reset_loop(c, NumChildren(c) - 1, step, frame)

\* _on_click_reset_button without the assignment selected_index = 0.
on_click_reset_button_keeping_index(c, frame) == reset(c, 0, frame)

\* WizardAppWidget._on_click_reset_button
on_click_reset_button(c, frame) == set_selected_index(reset(c, 0, frame), Idx(0))

\* _on_click_back_button with += in place of -=.
on_click_back_button_forward(c) ==
    IF c.idx = None THEN [c EXCEPT !.err = "TypeError"]
    ELSE set_selected_index(c, Idx(c.idx[1] + 1))

\* _on_click_back_button that also puts the step it leaves back to INIT.
on_click_back_button_resetting(c) ==
    IF c.idx = None THEN [c EXCEPT !.err = "TypeError"]
    ELSE set_selected_index(set_state(c, c.idx[1], INIT, 0), Idx(c.idx[1] - 1))

\* WizardAppWidget._on_click_back_button
on_click_back_button(c) ==
    IF c.idx = None THEN [c EXCEPT !.err = "TypeError"]
    ELSE set_selected_index(c, Idx(c.idx[1] - 1))

\* WizardAppWidget._on_click_next_button
on_click_next_button(c) ==
    IF c.idx = None THEN [c EXCEPT !.err = "TypeError"]
    ELSE set_selected_index(c, Idx(c.idx[1] + 1))

\* WizardAppWidget.__init__ on a sequence of steps that passes the length
\* check: titles are rendered, the link leaves selected_index at its default
\* 0 (no change, so no observer runs), the spinner thread is started, every
\* step is observed and the three buttons are created disabled.
\* A raise ends the constructor where it stands: the loop over the widgets
\* asserts has_trait("state") for each widget before it observes it.
init_widget(c, frame) ==
    LET c1 == update_titles(c, frame)
        c2 == IF c1.err # "" THEN c1
              ELSE [c1 EXCEPT !.idx = Idx(0), !.spin = TRUE]
        c3 == IF c2.err # "" THEN c2
              ELSE IF NoStateTrait(c) = {}
              THEN [c2 EXCEPT !.obs = 0 .. (NumChildren(c) - 1)]
              ELSE [c2 EXCEPT !.obs = 0 .. (Least(NoStateTrait(c)) - 1),
                              !.err = "AssertionError"]
    IN  IF c3.err # "" THEN c3
        ELSE [c3 EXCEPT !.reset = TRUE, !.back = TRUE, !.next = TRUE]

\* spinner_thread calling _update_step_state in place of _update_titles.
spinner_pass_recomputing(c, frame) == update_step_state(c, frame)

\* The body of the loop of spinner_thread after its sleep.
spinner_pass(c, frame) == update_titles(c, frame)

\* WizardAppWidget.__init__ with the length check moved behind the set-up.
wizard_init_late_check(c, frame) ==
    IF NumChildren(c) < 2
    THEN [init_widget(c, frame) EXCEPT !.err = "ValueError"]
    ELSE init_widget(c, frame)


\* WizardAppWidget.__init__: the length check, then the set-up.
wizard_init(c, frame) ==
    IF NumChildren(c) < 2
    THEN [c EXCEPT !.err = "ValueError"]
    ELSE init_widget(c, frame)

----
\* The controller and its steps as one record, at the start of a handler.
Ctl ==
    [steps |-> steps, idx |-> selected_index, back |-> back_disabled,
     next |-> next_disabled, reset |-> reset_disabled, titles |-> titles,
     obs |-> observers, spin |-> spinner_alive,
     err |-> "", adv |-> FALSE, log |-> <<>>]

\* The controller and its steps as record c leaves them.
Write(c) ==
    /\ steps' = c.steps
    /\ selected_index' = c.idx
    /\ back_disabled' = c.back
    /\ next_disabled' = c.next
    /\ reset_disabled' = c.reset
    /\ titles' = c.titles
    /\ observers' = c.obs
    /\ spinner_alive' = c.spin

\* The state after a handler that ended in record c; `op` and `arg` name it.
Commit(c, op, arg) ==
    /\ Write(c)
    /\ last' = [op |-> op, arg |-> arg, adv |-> c.adv, raised |-> c.err, log |-> c.log]
    /\ threads' = threads
    /\ UNCHANGED others

\* No thread is inside a handler.
NoThreads == <<>>

\* The selected index before a click, as an integer (-1: none).
OldIndex == IF selected_index = None THEN -1 ELSE selected_index[1]

NoOp == [op |-> "none", arg |-> 0, adv |-> FALSE, raised |-> "", log |-> <<>>]

\* WizardAppWidgetStep objects.
StepRecords ==
    [state : State, auto_advance : BOOLEAN, reset : BOOLEAN, state_trait : {"UseEnum"}]

\* Widgets of other classes handed over as steps: all with a reset method,
\* their state a string trait, a plain attribute or missing.
WidgetRecords ==
    [state : State \cup RawStates, auto_advance : BOOLEAN, reset : {TRUE},
     state_trait : {"Unicode", "attribute", "missing"}]

\* The values an assignment to the state of `step` can store: UseEnum
\* rejects everything but the members of State.
StateValues(step) ==
    IF step.state_trait = "UseEnum" THEN State ELSE State \cup RawStates

\* Steps are created by the application before the controller; each may
\* already have left INIT when it is handed to the constructor.
Init ==
    /\ phase = "new"
    /\ \E n \in 0 .. MaxSteps : steps \in [1 .. n -> StepRecords]
    /\ Cardinality({i \in 1 .. Len(steps) : ~steps[i].reset}) <= MaxNoReset
    /\ selected_index = None
    /\ back_disabled = TRUE
    /\ next_disabled = TRUE
    /\ reset_disabled = TRUE
    /\ titles = <<>>
    /\ observers = {}
    /\ spinner_alive = FALSE
    /\ last = NoOp
    /\ threads = NoThreads
    /\ NoOthers

\* The application constructs WizardAppWidget(steps); a constructor that
\* raises leaves no controller behind.
Construct ==
    /\ phase = "new"
    /\ \E frame \in ClockFrames(steps) :
          LET c == wizard_init(Ctl, frame)
          IN  /\ Commit(c, "init", 0)
              /\ phase' = IF c.err = "" THEN "built" ELSE "failed"

\* A step (or its collaborator) assigns its state.
StepSetState ==
    /\ phase = "built"
    /\ \E j \in 0 .. (Len(steps) - 1), s \in State \cup RawStates :
          /\ s \in StateValues(steps[j + 1])
          /\ steps[j + 1].state # s
          /\ \E frame \in ClockFrames([steps EXCEPT ![j + 1].state = s]) :
                Commit(set_state(Ctl, j, s, frame), "state",
                       IF s \in RawStates THEN 1 ELSE 0)
    /\ UNCHANGED phase

\* The user clicks "Next step"; a disabled button takes no click.
ClickNext ==
    /\ phase = "built"
    /\ ~next_disabled
    /\ Commit(on_click_next_button(Ctl), "next", OldIndex)
    /\ UNCHANGED phase

\* The user clicks "Previous step".
ClickBack ==
    /\ phase = "built"
    /\ ~back_disabled
    /\ Commit(on_click_back_button(Ctl), "back", OldIndex)
    /\ UNCHANGED phase

\* The user clicks "Reset".
ClickReset ==
    /\ phase = "built"
    /\ ~reset_disabled
    /\ \E frame \in ClockFrames(steps) : Commit(on_click_reset_button(Ctl, frame), "reset_click", 0)
    /\ UNCHANGED phase

\* The embedding application calls reset(step).
CallReset ==
    /\ phase = "built"
    /\ \E step \in 0 .. (Len(steps) - 1), frame \in ClockFrames(steps) :
          Commit(reset(Ctl, step, frame), "reset", step)
    /\ UNCHANGED phase

\* selected_index is assigned from outside: a click on a step header (which
\* also collapses the open step: None) or the embedding application, which
\* may also assign the value the trait already has.
SelectIndex ==
    /\ phase = "built"
    /\ \E v \in {None} \cup {Idx(i) : i \in 0 .. (Len(steps) - 1)} :
          Commit(set_selected_index(Ctl, v), "select", 0)
    /\ UNCHANGED phase

\* One pass of spinner_thread: sleep, then _update_titles.  The thread is no
\* handler of the controller: the history keeps the last handler.
SpinnerPass ==
    /\ spinner_alive
    /\ \E frame \in ClockFrames(steps) : Write(spinner_pass(Ctl, frame))
    /\ UNCHANGED <<phase, last, threads, others>>

Next ==
    \/ Construct
    \/ StepSetState
    \/ ClickNext
    \/ ClickBack
    \/ ClickReset
    \/ CallReset
    \/ SelectIndex
    \/ SpinnerPass

Spec == Init /\ [][Next]_vars

\* SpinnerPass with the pass written into the history, to tell a pass of the
\* thread from the handlers, and one pass from the next (arg alternates).
SpinnerPassRecorded ==
    /\ spinner_alive
    /\ \E frame \in ClockFrames(steps) : Write(spinner_pass(Ctl, frame))
    /\ last' = [NoOp EXCEPT !.op = "spin",
                            !.arg = IF last.op = "spin" THEN 1 - last.arg ELSE 0]
    /\ UNCHANGED <<phase, threads, others>>

NextAnim ==
    \/ Construct
    \/ StepSetState
    \/ ClickNext
    \/ ClickBack
    \/ ClickReset
    \/ CallReset
    \/ SelectIndex
    \/ SpinnerPassRecorded

\* The steps of Init that all have a reset method.
InitAnim == Init /\ \A i \in 1 .. Len(steps) : steps[i].reset

SpecAnim == InitAnim /\ [][NextAnim]_vars

\* Largest number of steps where the thread is followed for ever.
MaxLiveSteps == 2

InitLive == InitAnim /\ Len(steps) <= MaxLiveSteps

\* spinner_thread is `while True: sleep(0.1); self._update_titles()` on a
\* thread of its own: the scheduler lets it run again and again.
SpecLive == InitLive /\ [][NextAnim]_vars /\ WF_vars(SpinnerPassRecorded)

\* Widgets of other classes as steps, at most MaxNoTrait of them without a
\* state trait; a step without any state attribute has no state to vary.
InitWidgets ==
    /\ phase = "new"
    /\ \E n \in 0 .. MaxSteps : steps \in [1 .. n -> WidgetRecords]
    /\ Cardinality({i \in 1 .. Len(steps) : steps[i].state_trait # "Unicode"}) <= MaxNoTrait
    /\ \A i \in 1 .. Len(steps) : steps[i].state_trait = "missing" => steps[i].state = INIT
    /\ selected_index = None
    /\ back_disabled = TRUE
    /\ next_disabled = TRUE
    /\ reset_disabled = TRUE
    /\ titles = <<>>
    /\ observers = {}
    /\ spinner_alive = FALSE
    /\ last = NoOp
    /\ threads = NoThreads
    /\ NoOthers

SpecWidgets == InitWidgets /\ [][Next]_vars

----
Built == phase = "built"

\* The auto-advance condition of the step at index i.
AdvanceCond(st, i) ==
    /\ st[i + 1].auto_advance
    /\ i + 1 # Len(st)
    /\ st[i + 1].state = SUCCESS

\* A step of StepSetState: the only handler recorded as "state", and the
\* spinner, which keeps the record, never changes a step.
StateChangeEvent == last'.op = "state" /\ steps' # steps

\* The buttons are what _update_buttons makes of the present selection and
\* step states.
ButtonsFollowRules ==
    LET b == update_buttons(Ctl)
    IN  /\ b.err = ""
        /\ back_disabled = b.back
        /\ next_disabled = b.next
        /\ reset_disabled = b.reset

\* Whether the selected step exists.
Selected == selected_index # None /\ selected_index[1] \in 0 .. (Len(steps) - 1)

\* The selected step.
SelectedStep == steps[selected_index[1] + 1]

----
\* C1: in every state of a constructed controller, the state right after
\* construction included, the Next button is enabled if and only if a step is
\* selected, its state is exactly SUCCESS and it is not the last step.
C1_NextEnabledIff ==
    Built =>
        (~next_disabled <=>
            (/\ Selected
             /\ SelectedStep.state = SUCCESS
             /\ selected_index[1] + 1 # Len(steps)))

C3_SelectedIndexInRange ==
    Built => (selected_index = None \/ selected_index[1] \in 0 .. (Len(steps) - 1))

\* C3 witness: a click on Next has moved the selection onto the last step.
C3_Witness == Built /\ last.op = "next" /\ selected_index = Idx(Len(steps) - 1)

\* C4: a step state-change event advances selected_index by one if the
\* selected step has auto_advance, is not the last step and is SUCCESS, and
\* leaves selected_index unchanged otherwise.
C4_AutoAdvanceOnEvent ==
    [][StateChangeEvent =>
          selected_index' =
             IF Selected /\ AdvanceCond(steps', selected_index[1])
             THEN Idx(selected_index[1] + 1)
             ELSE selected_index]_vars

\* C4 witness: a step state change has advanced the selection.
C4_Witness == Built /\ last.op = "state" /\ last.adv

\* C5: auto-advance chains: after a step state change that advanced the
\* selection, the selection rests on a step that is not auto-advance, not
\* SUCCESS, or the last step.
C5_AutoAdvanceChains ==
    (Built /\ last.op = "state" /\ last.adv /\ Selected) =>
        ~AdvanceCond(steps, selected_index[1])

\* C6: can_reset() is true if and only if every step has the reset
\* capability and at least one step is not INIT; otherwise it is False or None.
C6_CanResetIff ==
    Built =>
        /\ can_reset(Ctl) \in {"True", "False", "None"}
        /\ (can_reset(Ctl) = "True") <=>
              (/\ \A i \in 1 .. Len(steps) : steps[i].reset
               /\ \E i \in 1 .. Len(steps) : steps[i].state # INIT)
        /\ PyNot(can_reset(Ctl)) <=> (can_reset(Ctl) # "True")

\* C6 witness: one step lacks reset, another step has left INIT, and
\* can_reset() is False.
C6_Witness ==
    /\ Built
    /\ last.op = "state"
    /\ \E i, k \in 1 .. Len(steps) :
          i # k /\ ~steps[i].reset /\ steps[k].reset /\ steps[k].state # INIT
    /\ can_reset(Ctl) = "False"

\* The steps whose reset() the last reset(step) or Reset click invoked, in
\* the order of the invocations.
ResetLog == last.log

\* C7: reset(from_index) invokes the steps' reset() in strict reverse order:
\* the invoked indices decrease strictly, all lie in [from_index, number of
\* steps), and a reset that does not raise leaves out no step that has a
\* reset method.
C7_ResetReverseOrder ==
    (Built /\ last.op \in {"reset", "reset_click"}) =>
        /\ \A p, q \in 1 .. Len(ResetLog) : p < q => ResetLog[p] > ResetLog[q]
        /\ \A p \in 1 .. Len(ResetLog) :
              ResetLog[p] >= last.arg /\ ResetLog[p] < Len(steps)
        /\ last.raised = "" =>
              \A k \in last.arg .. (Len(steps) - 1) :
                 steps[k + 1].reset => \E p \in 1 .. Len(ResetLog) : ResetLog[p] = k

\* C7 witness: reset(0) on three steps has reset step 2, then 1, then 0.
C7_Witness ==
    /\ Built
    /\ last.op = "reset"
    /\ last.arg = 0
    /\ Len(steps) = 3
    /\ ResetLog = <<2, 1, 0>>

C10_LengthCheck ==
    /\ phase = "failed" =>
          /\ Len(steps) < 2
          /\ last.raised = "ValueError"
          /\ titles = <<>> /\ observers = {} /\ ~spinner_alive
    /\ phase = "built" => (Len(steps) >= 2 /\ last.raised # "ValueError")
    /\ (phase # "new" /\ Len(steps) >= 2) => phase = "built"
    /\ (phase # "new" /\ Len(steps) < 2) => phase = "failed"

\* C10 witness: construction with one step has failed.
C10_Witness == phase = "failed" /\ Len(steps) = 1 /\ last.raised = "ValueError"

----
(***************************************************************************)
(* State-change notifications delivered on different threads.  wizard.py   *)
(* takes no lock: hold_trait_notifications only defers the notifications   *)
(* of the controller's own traits.  A thread that runs _update_step_state  *)
(* can be suspended between any two of its statements, and between the     *)
(* read and the write of `self.accordion.selected_index += 1`; each action *)
(* below is one such piece.  The notification of a store runs              *)
(* _observe_selected_index when the storing thread leaves its handler.     *)
(***************************************************************************)
Threads == 1 .. 2

IdleThread == [pc |-> "idle", j |-> 0, s |-> INIT, tmp |-> None, stored |-> FALSE, raised |-> ""]

\* A controller record before __init__ over the steps st.
NewCtl(st) ==
    [steps |-> st, idx |-> None, back |-> TRUE, next |-> TRUE, reset |-> TRUE,
     titles |-> <<>>, obs |-> {}, spin |-> FALSE,
     err |-> "", adv |-> FALSE, log |-> <<>>]

\* A controller just constructed over two or more WizardAppWidgetStep
\* objects in their default state INIT, and two threads about to assign a
\* step's state.
InitConc ==
    /\ phase = "built"
    /\ \E n \in 2 .. MaxSteps : \E st \in [1 .. n -> StepRecords] :
          /\ \A i \in 1 .. n : st[i].state = INIT /\ st[i].reset
          /\ LET c == wizard_init(NewCtl(st), 0)
             IN  /\ steps = c.steps
                 /\ selected_index = c.idx
                 /\ back_disabled = c.back
                 /\ next_disabled = c.next
                 /\ reset_disabled = c.reset
                 /\ titles = c.titles
                 /\ observers = c.obs
                 /\ spinner_alive = c.spin
    /\ last = [NoOp EXCEPT !.op = "init"]
    /\ threads = [t \in Threads |-> IdleThread]
    /\ NoOthers

\* Thread t goes on to pc with the controller as record c leaves it.
Goto(t, c, rec) ==
    /\ Write(c)
    /\ threads' = [threads EXCEPT ![t] = rec]
    /\ UNCHANGED <<phase, last, others>>

\* A step, other than the step another thread is handling, is assigned a new
\* state on thread t; traitlets calls _update_step_state on that thread.
ThreadAssign(t) ==
    /\ threads[t].pc = "idle"
    /\ \E j \in 0 .. (Len(steps) - 1), s \in State :
          /\ steps[j + 1].state # s
          /\ j \in observers
          /\ \A u \in Threads \ {t} : threads[u].pc = "idle" \/ threads[u].j # j
          /\ Goto(t, [Ctl EXCEPT !.steps[j + 1].state = s],
                  [threads[t] EXCEPT !.pc = "titles", !.j = j, !.s = s])

\* _update_step_state: self._update_titles()
ThreadTitles(t) ==
    /\ threads[t].pc = "titles"
    /\ \E frame \in ClockFrames(steps) :
          Goto(t, update_titles(Ctl, frame), [threads[t] EXCEPT !.pc = "buttons"])

\* _update_step_state: self._update_buttons()
ThreadButtons(t) ==
    /\ threads[t].pc = "buttons"
    /\ LET c == update_buttons(Ctl)
       IN  Goto(t, [c EXCEPT !.err = ""],
                [threads[t] EXCEPT !.pc = IF c.err # "" THEN "done" ELSE "check",
                                   !.raised = c.err])

\* _consider_auto_advance: the read of the index and the test.
ThreadCheck(t) ==
    /\ threads[t].pc = "check"
    /\ LET c == consider_auto_advance(Ctl)
       IN  Goto(t, Ctl,
                [threads[t] EXCEPT !.pc = IF c.err # "" THEN "done"
                                          ELSE IF c.adv THEN "load" ELSE "exit",
                                   !.raised = c.err])

\* `self.accordion.selected_index += 1`: the read.
ThreadLoad(t) ==
    /\ threads[t].pc = "load"
    /\ Goto(t, Ctl, [threads[t] EXCEPT !.pc = "store", !.tmp = selected_index])

\* `self.accordion.selected_index += 1`: the addition and the write.
ThreadStore(t) ==
    /\ threads[t].pc = "store"
    /\ IF threads[t].tmp = None
       THEN Goto(t, Ctl, [threads[t] EXCEPT !.pc = "done", !.raised = "TypeError"])
       ELSE Goto(t, [Ctl EXCEPT !.idx = Idx(threads[t].tmp[1] + 1)],
                 [threads[t] EXCEPT !.pc = "exit",
                                    !.stored = Idx(threads[t].tmp[1] + 1) # selected_index])

\* _update_step_state is left: a notification held back is delivered.
ThreadExit(t) ==
    /\ threads[t].pc = "exit"
    /\ LET c == IF threads[t].stored THEN observe_selected_index(Ctl) ELSE Ctl
       IN  Goto(t, [c EXCEPT !.err = ""],
                [threads[t] EXCEPT !.pc = "done", !.raised = c.err])

NextConc ==
    \E t \in Threads :
        \/ ThreadAssign(t)
        \/ ThreadTitles(t)
        \/ ThreadButtons(t)
        \/ ThreadCheck(t)
        \/ ThreadLoad(t)
        \/ ThreadStore(t)
        \/ ThreadExit(t)

SpecConc == InitConc /\ [][NextConc]_vars

\* Both threads have left their handler.
AllDone == DOMAIN threads = Threads /\ \A t \in Threads : threads[t].pc = "done"

\* The controller before the two assignments.
Start == wizard_init(NewCtl([i \in 1 .. Len(steps) |-> [steps[i] EXCEPT !.state = INIT]]), 0)

\* The controller after the assignment of thread a and then that of thread b,
\* each handled as a whole.
Serial(a, b) ==
    set_state(set_state(Start, threads[a].j, threads[a].s, 0),
              threads[b].j, threads[b].s, 0)

----
\* C11: a construction that fails because a step exposes no observable state
\* leaves nothing behind: no observer of the controller is registered on any
\* step and no spinner thread of that construction is running.
C11_NoPartialController ==
    phase = "failed" => (last.raised # "" /\ observers = {} /\ ~spinner_alive)

\* C12: right after a successful construction, before any event,
\* selected_index is 0 and the three buttons are what the rules give for
\* index 0 and the steps' states.
C12_ButtonsAfterConstruction ==
    (Built /\ last.op = "init") => (selected_index = Idx(0) /\ ButtonsFollowRules)

\* C13: after every assignment to selected_index (a header click or the
\* embedding application, a click on Back or Next) the three buttons are what
\* the rules give for the newly selected step.
C13_ButtonsAfterSelection ==
    (Built /\ last.op \in {"select", "next", "back"}) => ButtonsFollowRules

C15_ResetButtonIff ==
    (Built /\ Selected) => (reset_disabled <=> can_reset(Ctl) # "True")

\* C16: state-change notifications of different steps that arrive on
\* different threads are handled one at a time: when both handlers are done,
\* selected_index is what one of the two serial orders gives, so there is no
\* double advance and no advance past the last step.
C16_SerialOutcome ==
    AllDone =>
        /\ selected_index \in {Serial(1, 2).idx, Serial(2, 1).idx}
        /\ Selected

\* C17: a pass of the spinner thread is display-only: it leaves
\* selected_index, every step and the enablement of the three buttons as they
\* are, and sets each step's title to an icon of the step's present state.
C17_SpinnerDisplayOnly ==
    [][last'.op = "spin" =>
          /\ UNCHANGED <<steps, selected_index, back_disabled, next_disabled,
                         reset_disabled, observers, spinner_alive>>
          /\ \A i \in 1 .. Len(steps) :
                \E frame \in Frames : titles'[i] = <<ICONS(steps[i].state, frame), i>>]_vars

\* C17 witness: a pass of the thread has drawn the second glyph of the
\* animation on an ACTIVE step while the Next button is enabled.
C17_Witness ==
    /\ Built
    /\ last.op = "spin"
    /\ ~next_disabled
    /\ \E i \in 1 .. Len(steps) : steps[i].state = ACTIVE /\ titles[i][1] = "U+25DD"

\* C18: when a step's state is set to a value outside State, the handler of
\* the event does not raise, the title of a step in such a state shows the
\* value in upper case, and Next is disabled while such a step is selected.
C18_UnmodelledStateHandled ==
    (Built /\ last.op = "state" /\ last.arg = 1) =>
        /\ last.raised = ""
        /\ \A i \in 1 .. Len(steps) :
              steps[i].state \in RawStates => titles[i] = <<upper(steps[i].state), i>>
        /\ (Selected /\ SelectedStep.state \in RawStates) => next_disabled

C20_ControllerLeavesSteps ==
    [][steps' # steps =>
          /\ Len(steps') = Len(steps)
          /\ \A i \in 1 .. Len(steps) :
                steps'[i] = [steps[i] EXCEPT !.state = steps'[i].state]
          /\ CASE last'.op = "state" ->
                     Cardinality({i \in 1 .. Len(steps) : steps'[i] # steps[i]}) = 1
                [] last'.op \in {"reset", "reset_click"} ->
                     \A i \in 1 .. Len(steps) :
                        steps'[i] # steps[i] =>
                           /\ steps'[i].state = INIT
                           /\ \E p \in 1 .. Len(last'.log) : last'.log[p] = i - 1
                [] OTHER -> FALSE]_vars

\* C20 witness: a step state change has advanced the selection onto the
\* last of three steps, which is still in a state other than INIT or
\* SUCCESS, beside a first step that has its state too.
C20_Witness ==
    /\ Built
    /\ last.op = "state"
    /\ last.adv
    /\ Len(steps) = 3
    /\ selected_index = Idx(2)
    /\ steps[3].state = READY
    /\ steps[1].state = FAIL

\* C21: reset(step) invokes reset() on no step with an index below `step`,
\* and leaves every such step as it is.
C21_ResetFromStep ==
    [][last'.op = "reset" =>
          /\ \A p \in 1 .. Len(last'.log) : last'.log[p] >= last'.arg
          /\ \A i \in 1 .. last'.arg : steps'[i] = steps[i]]_vars

\* C21 witness: reset(1) on three steps has reset steps 2 and 1 and left
\* step 0 in SUCCESS.
C21_Witness ==
    /\ Built
    /\ last.op = "reset"
    /\ last.arg = 1
    /\ ResetLog = <<2, 1>>
    /\ steps[1].state = SUCCESS

\* C22: once the controller is constructed, the spinner thread makes a pass
\* again and again, for ever, whatever the controller is asked to do.
C22_SpinnerRunsForever ==
    [](~Built) \/ []<><<SpinnerPassRecorded>>_vars

\* C22 witness: the thread has made two passes in a row while
\* the last step is selected and in FAIL.
C22_Witness ==
    /\ Built
    /\ last.op = "spin"
    /\ last.arg = 1
    /\ selected_index = Idx(Len(steps) - 1)
    /\ steps[Len(steps)].state = FAIL
    /\ spinner_alive

\* C27: a step state change that arrives while selected_index is unset is
\* handled without raising; selected_index stays unset and the three buttons
\* stay disabled.
C27_StateChangeWhileUnset ==
    [][(StateChangeEvent /\ selected_index = None) =>
          /\ last'.raised = ""
          /\ selected_index' = None
          /\ back_disabled' /\ next_disabled' /\ reset_disabled']_vars

\* C28 as claimed: a state change of a step other than the selected one
\* never changes selected_index.
C28_OtherStepKeepsSelection ==
    [][(StateChangeEvent /\ Selected /\ steps'[selected_index[1] + 1] = SelectedStep) =>
          selected_index' = selected_index]_vars

\* C28 as amended: a state change of a step other than the selected one
\* moves the selection, by exactly one, if and only if the selected step has
\* auto_advance, is not the last step and is in SUCCESS.
C28_OtherStepAdvancesOnCondition ==
    [][(StateChangeEvent /\ Selected /\ steps'[selected_index[1] + 1] = SelectedStep) =>
          selected_index' = IF AdvanceCond(steps, selected_index[1])
                            THEN Idx(selected_index[1] + 1)
                            ELSE selected_index]_vars

\* C28 witness: the selection has advanced onto step 1 while step 0, which
\* was selected, was in SUCCESS before, and another step changed its state:
\* step 0 is still in SUCCESS and step 2 is in READY.
C28_Witness ==
    /\ Built
    /\ last.op = "state"
    /\ last.adv
    /\ Len(steps) = 3
    /\ selected_index = Idx(1)
    /\ steps[1].state = SUCCESS
    /\ steps[2].state = INIT
    /\ steps[3].state = READY

\* C29 as claimed: a direct call of reset(step) leaves selected_index
\* unchanged.
C29_ResetKeepsSelection ==
    [][last'.op = "reset" => selected_index' = selected_index]_vars

\* C29 as amended: a direct call of reset(step) moves the selection only
\* forward and only by auto-advance: only if a step's reset() changed that
\* step's state while the selected step had auto_advance, was not the last
\* step and was in SUCCESS.
C29_ResetMovesOnlyByAutoAdvance ==
    [][(last'.op = "reset" /\ selected_index' # selected_index) =>
          /\ Selected
          /\ AdvanceCond(steps, selected_index[1])
          /\ steps' # steps
          /\ last'.adv
          /\ selected_index' # None
          /\ selected_index'[1] > selected_index[1]
          /\ selected_index'[1] < Len(steps)]_vars

\* C29 witness: reset(2) on three steps has reset the last step and the
\* selection has advanced from step 0 onto step 1.
C29_Witness ==
    /\ Built
    /\ last.op = "reset"
    /\ last.arg = 2
    /\ last.adv
    /\ last.raised = ""
    /\ selected_index = Idx(1)
    /\ steps[1].state = SUCCESS

----
(***************************************************************************)
(* process.py: SubmitButtonWidget.  The widget is a record of its fields:  *)
(* btn_submit.disabled is `disabled`, the process trait is None or the     *)
(* number of the process node, submit_out.value is the sequence of the     *)
(* messages it holds.  aiida.engine.submit either returns a new process    *)
(* node or raises; the functions registered with on_submitted return.      *)
(* `presses`, `submitted`, `input`, `outcome` and `called` are history:    *)
(* the presses and processes so far, what the input function and submit    *)
(* did in the last press, and the calls func(process) the last press made. *)
(***************************************************************************)
\* Largest number of presses of the submit button.
MaxPresses == 3

\* Largest number of functions registered with on_submitted or on_completed.
MaxCallbacks == 2

\* The functions an application registers.
Functions == {"f", "g"}

\* SubmitButtonWidget.__init__ with a process class and a callable.
submit_button_init(disable_after_submit, append_output) ==
    [disable_after_submit |-> disable_after_submit,
     append_output |-> append_output,
     disabled |-> FALSE,
     process |-> None,
     submit_out |-> <<>>,
     run_after_submitted |-> <<>>,
     presses |-> 0, submitted |-> 0, input |-> "", outcome |-> "", called |-> <<>>]

\* What a press appends to, or puts in place of, submit_out.value.
submit_message(w, text) ==
    IF w.append_output THEN Append(w.submit_out, text) ELSE <<text>>

\* on_btn_submit_press that runs the registered functions before it looks at
\* the input dictionary.
on_btn_submit_press_callbacks_first(w, input, outcome) ==
    LET w0 == [w EXCEPT !.presses = @ + 1, !.input = input, !.outcome = "",
                        !.called = [i \in 1 .. Len(w.run_after_submitted) |->
                                      <<w.run_after_submitted[i], w.process>>]]
        w1 == IF ~w.append_output THEN [w0 EXCEPT !.submit_out = <<>>] ELSE w0
    IN  IF input = "None"
        THEN [w1 EXCEPT !.submit_out = submit_message(w1, "did not recieve input dictionary")]
        ELSE LET w2 == [w1 EXCEPT !.disabled = w.disable_after_submit]
             IN  IF outcome = "raises" THEN [w2 EXCEPT !.outcome = "raises"]
                 ELSE [w2 EXCEPT !.process = Idx(w.submitted + 1),
                                 !.submitted = @ + 1,
                                 !.outcome = "returns",
                                 !.submit_out = submit_message(w2, "Submitted process")]

\* SubmitButtonWidget.on_btn_submit_press; `input` is what the input
\* dictionary function returns, `outcome` what submit does.
on_btn_submit_press(w, input, outcome) ==
    LET w0 == [w EXCEPT !.presses = @ + 1, !.input = input, !.outcome = "",
                        !.called = <<>>]
        w1 == IF ~w.append_output THEN [w0 EXCEPT !.submit_out = <<>>] ELSE w0
    IN  IF input = "None"
        THEN [w1 EXCEPT !.submit_out = submit_message(w1, "did not recieve input dictionary")]
        ELSE LET w2 == [w1 EXCEPT !.disabled = w.disable_after_submit]
             IN  IF outcome = "raises" THEN [w2 EXCEPT !.outcome = "raises"]
                 ELSE LET w3 == [w2 EXCEPT
                                   !.process = Idx(w.submitted + 1),
                                   !.submitted = @ + 1,
                                   !.outcome = "returns",
                                   !.submit_out = submit_message(w2, "Submitted process")]
                      IN  [w3 EXCEPT !.called =
                             [i \in 1 .. Len(w.run_after_submitted) |->
                                <<w.run_after_submitted[i], w3.process>>]]

\* SubmitButtonWidget.on_submitted
on_submitted(w, function) ==
    [w EXCEPT !.run_after_submitted = Append(@, function)]

\* The variables of the wizard, which does not exist here.
NoWizard ==
    /\ phase = "none"
    /\ steps = <<>>
    /\ selected_index = None
    /\ back_disabled = TRUE
    /\ next_disabled = TRUE
    /\ reset_disabled = TRUE
    /\ titles = <<>>
    /\ observers = {}
    /\ spinner_alive = FALSE
    /\ last = NoOp
    /\ threads = NoThreads

wizardVars == <<phase, steps, selected_index, back_disabled, next_disabled,
                reset_disabled, titles, observers, spinner_alive, last, threads>>

InitSubmit ==
    /\ NoWizard
    /\ \E das \in BOOLEAN, ao \in BOOLEAN : submit_button = submit_button_init(das, ao)
    /\ follower = Absent
    /\ rpn = Absent

\* The application registers a function.
OnSubmitted ==
    /\ Len(submit_button.run_after_submitted) < MaxCallbacks
    /\ \E function \in Functions : submit_button' = on_submitted(submit_button, function)
    /\ UNCHANGED <<wizardVars, follower, rpn>>

\* The user presses the button; a disabled button takes no press.
PressSubmit ==
    /\ ~submit_button.disabled
    /\ submit_button.presses < MaxPresses
    /\ \E input \in {"None", "dict"} :
         \E outcome \in IF input = "None" THEN {""} ELSE {"returns", "raises"} :
            submit_button' = on_btn_submit_press(submit_button, input, outcome)
    /\ UNCHANGED <<wizardVars, follower, rpn>>

NextSubmit ==
    \/ OnSubmitted
    \/ PressSubmit

SpecSubmit == InitSubmit /\ [][NextSubmit]_vars

\* A press of the submit button.
Pressed == submit_button'.presses # submit_button.presses

\* C23: a press whose input function returns a dictionary and whose submit
\* returns calls every registered function once, in the order of
\* registration, with the newly submitted process; a press whose input
\* function returns None, or whose submit raises, calls no function, and the
\* former submits nothing and leaves the process trait as it is.
C23_CallbacksAfterSubmit ==
    [][Pressed =>
          LET w == submit_button'
          IN  /\ (w.input = "dict" /\ w.outcome = "returns") =>
                    /\ w.submitted = submit_button.submitted + 1
                    /\ w.process = Idx(w.submitted)
                    /\ Len(w.called) = Len(w.run_after_submitted)
                    /\ \A i \in 1 .. Len(w.called) :
                          w.called[i] = <<w.run_after_submitted[i], w.process>>
              /\ w.input = "None" =>
                    /\ w.called = <<>>
                    /\ w.process = submit_button.process
                    /\ w.submitted = submit_button.submitted
              /\ w.outcome = "raises" =>
                    /\ w.called = <<>>
                    /\ w.submitted = submit_button.submitted]_vars

\* C23 witness: the second press has submitted process 2 and called g and
\* then f with it.
C23_Witness ==
    /\ submit_button # Absent
    /\ submit_button.presses = 2
    /\ submit_button.called = <<<<"g", Idx(2)>>, <<"f", Idx(2)>>>>

\* C24: with disable_after_submit, the button is disabled if and only if a
\* process was submitted: after presses that submitted nothing it is still
\* enabled.
C24_DisabledOnlyAfterSubmit ==
    (submit_button # Absent /\ submit_button.disable_after_submit) =>
        (submit_button.disabled <=> submit_button.submitted > 0)

----
(***************************************************************************)
(* process.py: ProcessFollowerWidget.  `sealed` is process.is_sealed,      *)
(* which the AiiDA daemon sets once and for all; `followers` is the number *)
(* of follower widgets; `pc` is the position of the one call of _follow.   *)
(* History: `observed_sealed` says that the test of the while loop has     *)
(* seen the process sealed, `fresh` holds the followers updated since      *)
(* then, `called` the calls func(process) made so far.                     *)
(***************************************************************************)
\* Largest number of follower widgets.
MaxFollowers == 2

\* ProcessFollowerWidget.__init__: the followers are created and updated.
follower_init(followers, sealed) ==
    [sealed |-> sealed,
     followers |-> followers,
     run_after_completed |-> <<>>,
     pc |-> "idle",
     index |-> 1,
     observed_sealed |-> FALSE, fresh |-> {}, called |-> <<>>]

\* ProcessFollowerWidget.update, called by _follow.
follower_update(w) ==
    [w EXCEPT !.fresh = IF w.observed_sealed THEN 1 .. w.followers ELSE @]

\* _follow: the test of the while loop and, the process not sealed, the
\* update in its body.
follow_test(w) ==
    IF ~w.sealed
    THEN [follower_update(w) EXCEPT !.pc = "sleep"]
    ELSE [w EXCEPT !.observed_sealed = TRUE, !.pc = "last"]

\* _follow without the update behind the loop.
follow_last_without_update(w) == [w EXCEPT !.pc = "callbacks", !.index = 1]

\* _follow: the update behind the loop.
follow_last(w) == [follower_update(w) EXCEPT !.pc = "callbacks", !.index = 1]

\* _follow: one round of `for func in self._run_after_completed`, which
\* reads the list as it is in that round.
follow_call(w) ==
    IF w.index <= Len(w.run_after_completed)
    THEN [w EXCEPT !.called = Append(@, <<w.run_after_completed[w.index], "process">>),
                   !.index = @ + 1]
    ELSE [w EXCEPT !.pc = "done"]

\* ProcessFollowerWidget.on_completed
on_completed(w, function) ==
    [w EXCEPT !.run_after_completed = Append(@, function)]

InitFollower ==
    /\ NoWizard
    /\ submit_button = Absent
    /\ \E followers \in 0 .. MaxFollowers, sealed \in BOOLEAN :
          follower = follower_init(followers, sealed)
    /\ rpn = Absent

\* The daemon seals the process node.
Seal ==
    /\ ~follower.sealed
    /\ follower' = [follower EXCEPT !.sealed = TRUE]
    /\ UNCHANGED <<wizardVars, submit_button, rpn>>

\* The application registers a function, before, during (follow(detach=True))
\* or after _follow.
OnCompleted ==
    /\ Len(follower.run_after_completed) < MaxCallbacks
    /\ \E function \in Functions : follower' = on_completed(follower, function)
    /\ UNCHANGED <<wizardVars, submit_button, rpn>>

\* follow(): _follow starts, on this thread or on one of its own.
Follow ==
    /\ follower.pc = "idle"
    /\ follower' = [follower EXCEPT !.pc = "test"]
    /\ UNCHANGED <<wizardVars, submit_button, rpn>>

FollowTest ==
    /\ follower.pc = "test"
    /\ follower' = follow_test(follower)
    /\ UNCHANGED <<wizardVars, submit_button, rpn>>

\* sleep(self.update_interval)
FollowSleep ==
    /\ follower.pc = "sleep"
    /\ follower' = [follower EXCEPT !.pc = "test"]
    /\ UNCHANGED <<wizardVars, submit_button, rpn>>

FollowLast ==
    /\ follower.pc = "last"
    /\ follower' = follow_last(follower)
    /\ UNCHANGED <<wizardVars, submit_button, rpn>>

FollowCall ==
    /\ follower.pc = "callbacks"
    /\ follower' = follow_call(follower)
    /\ UNCHANGED <<wizardVars, submit_button, rpn>>

NextFollower ==
    \/ Seal
    \/ OnCompleted
    \/ Follow
    \/ FollowTest
    \/ FollowSleep
    \/ FollowLast
    \/ FollowCall

SpecFollower == InitFollower /\ [][NextFollower]_vars

\* C25: _follow calls no function before its loop has seen the process
\* sealed and every follower has been updated after that; the calls are
\* made in the order of registration, one per registered function, and when
\* the loop over the functions ends every registered function has been
\* called exactly once.
C25_CallbacksAfterCompletion ==
    [][LET w == follower'
       IN  /\ w.called # <<>> =>
                 /\ w.sealed
                 /\ w.observed_sealed
                 /\ w.fresh = 1 .. w.followers
           /\ Len(w.called) <= Len(w.run_after_completed)
           /\ \A i \in 1 .. Len(w.called) :
                 w.called[i] = <<w.run_after_completed[i], "process">>
           /\ (w.pc = "done" /\ follower.pc # "done") =>
                 Len(w.called) = Len(w.run_after_completed)]_vars

\* C25 witness: _follow has seen the process sealed, updated both followers
\* and called g and then f; it is done.
C25_Witness ==
    /\ follower # Absent
    /\ follower.pc = "done"
    /\ follower.followers = 2
    /\ follower.fresh = {1, 2}
    /\ follower.called = <<<<"g", "process">>, <<"f", "process">>>>

----
(***************************************************************************)
(* misc.py: ReversePolishNotation.convert.  The expression is a sequence   *)
(* of tokens; the stack is a sequence with its top at the end.  One step   *)
(* of the conversion is one round of `for char in expr`, the last step is  *)
(* the loop that empties the stack.  self.operators maps each operator to  *)
(* its priority.                                                           *)
(***************************************************************************)
\* Largest number of tokens in an expression.
MaxTokens == 5

\* self.operators: the 'priority' entry of each operator.
operators == ("+" :> 1) @@ ("-" :> 1) @@ ("*" :> 2)

\* Tokens that are operands.
Operands == {"x", "y"}

Tokens == Operands \cup DOMAIN operators \cup {"(", ")"}

\* ReversePolishNotation.haslessorequalpriority with < in place of <=.
haslessorequalpriority_strict(opa, opb) ==
    IF opa \notin DOMAIN operators THEN FALSE
    ELSE IF opb \notin DOMAIN operators THEN FALSE
    ELSE operators[opa] < operators[opb]

\* ReversePolishNotation.haslessorequalpriority
haslessorequalpriority(opa, opb) ==
    IF opa \notin DOMAIN operators THEN FALSE
    ELSE IF opb \notin DOMAIN operators THEN FALSE
    ELSE operators[opa] <= operators[opb]

\* ReversePolishNotation.isoperand
isoperand(operator) == operator \notin (DOMAIN operators \cup {"(", ")"})

\* ReversePolishNotation.isopenparenthesis
isopenparenthesis(operator) == operator = "("

\* ReversePolishNotation.iscloseparenthesis
iscloseparenthesis(operator) == operator = ")"

\* list.pop(): the list without its last element.
Front(s) == SubSeq(s, 1, Len(s) - 1)

\* convert, on a close parenthesis: pop, and append to the output, until an
\* open parenthesis is popped; a pop from the empty stack raises.
RECURSIVE pop_to_open(_)
pop_to_open(r) ==
    IF r.stack = <<>> THEN [r EXCEPT !.err = "IndexError"]
    ELSE LET operator == r.stack[Len(r.stack)]
             r1 == [r EXCEPT !.stack = Front(@)]
         IN  IF isopenparenthesis(operator) THEN r1
             ELSE pop_to_open([r1 EXCEPT !.output = Append(@, operator)])

\* convert, on an operator: pop, and append to the output, while the top of
\* the stack has a priority that is not lower.
RECURSIVE pop_not_lower(_, _)
pop_not_lower(r, char) ==
    IF r.stack # <<>> /\ haslessorequalpriority(char, r.stack[Len(r.stack)])
    THEN pop_not_lower([r EXCEPT !.stack = Front(@),
                                 !.output = Append(@, r.stack[Len(r.stack)])], char)
    ELSE r

\* convert: one round of `for char in expr`.
convert_char(r) ==
    LET char == r.expr[r.pos]
        r1 == [r EXCEPT !.pos = @ + 1]
    IN  IF isoperand(char) THEN [r1 EXCEPT !.output = Append(@, char)]
        ELSE IF isopenparenthesis(char) THEN [r1 EXCEPT !.stack = Append(@, char)]
        ELSE IF iscloseparenthesis(char) THEN pop_to_open(r1)
        ELSE [pop_not_lower(r1, char) EXCEPT !.stack = Append(@, char)]

\* convert: `while stack: output.append(stack.pop())`
RECURSIVE convert_rest(_)
convert_rest(r) ==
    IF r.stack = <<>> THEN [r EXCEPT !.pc = "done"]
    ELSE convert_rest([r EXCEPT !.stack = Front(@),
                                !.output = Append(@, r.stack[Len(r.stack)])])

\* The number of open parentheses minus that of close parentheses among the
\* first k tokens.
Depth(expr, k) ==
    Cardinality({i \in 1 .. k : expr[i] = "("}) - Cardinality({i \in 1 .. k : expr[i] = ")"})

\* The parentheses of the expression are balanced.
Balanced(expr) ==
    /\ \A k \in 1 .. Len(expr) : Depth(expr, k) >= 0
    /\ Depth(expr, Len(expr)) = 0

\* convert is called on a token sequence with balanced parentheses.
InitRpn ==
    /\ NoWizard
    /\ submit_button = Absent
    /\ follower = Absent
    /\ \E n \in 0 .. MaxTokens : \E expr \in [1 .. n -> Tokens] :
          /\ Balanced(expr)
          /\ rpn = [expr |-> expr, pos |-> 1, stack |-> <<>>, output |-> <<>>,
                    pc |-> "for", err |-> ""]

ConvertChar ==
    /\ rpn.pc = "for"
    /\ rpn.err = ""
    /\ rpn.pos <= Len(rpn.expr)
    /\ rpn' = convert_char(rpn)
    /\ UNCHANGED <<wizardVars, submit_button, follower>>

ConvertRest ==
    /\ rpn.pc = "for"
    /\ rpn.err = ""
    /\ rpn.pos > Len(rpn.expr)
    /\ rpn' = convert_rest(rpn)
    /\ UNCHANGED <<wizardVars, submit_button, follower>>

NextRpn ==
    \/ ConvertChar
    \/ ConvertRest

SpecRpn == InitRpn /\ [][NextRpn]_vars

\* How often token t occurs in the sequence s.
Count(s, t) == Cardinality({i \in 1 .. Len(s) : s[i] = t})

\* The operands of the sequence s, in their order.
OperandsOf(s) == SelectSeq(s, LAMBDA t : t \in Operands)

\* C26: convert never raises on balanced parentheses; its output holds every
\* operand and operator of the input as often as the input and no
\* parenthesis, with the operands in their input order; and an operator is
\* stacked only on an open parenthesis or on an operator of strictly lower
\* priority, every stacked operator of higher or equal priority having been
\* put out before.
C26_ConvertToPostfix ==
    rpn # Absent =>
        /\ rpn.err = ""
        /\ \A k \in 1 .. (Len(rpn.stack) - 1) :
              (rpn.stack[k] \in DOMAIN operators /\ rpn.stack[k + 1] \in DOMAIN operators)
                 => operators[rpn.stack[k]] < operators[rpn.stack[k + 1]]
        /\ OperandsOf(rpn.output) = OperandsOf(SubSeq(rpn.expr, 1, rpn.pos - 1))
        /\ rpn.pc = "done" =>
              /\ rpn.stack = <<>>
              /\ \A t \in Tokens :
                    Count(rpn.output, t) = IF t \in {"(", ")"} THEN 0 ELSE Count(rpn.expr, t)

\* C26 witness: x + y - x has become x y + x -.
C26_Witness ==
    /\ rpn # Absent
    /\ rpn.pc = "done"
    /\ rpn.expr = <<"x", "+", "y", "-", "x">>
    /\ rpn.output = <<"x", "y", "+", "x", "-">>

====
